---- MODULE Spec2Model ----
(***************************************************************************)
(* express-jobly: the authorization middleware chain, the routes that wire *)
(* it (users, jobs), and the partial-update SQL builder.                   *)
(*                                                                         *)
(* JavaScript objects are functions whose DOMAIN is the set of keys that   *)
(* are set: `res.locals` is <<>> until a middleware assigns `user`, and a  *)
(* token payload may or may not carry `isAdmin`.                           *)
(***************************************************************************)
EXTENDS Integers, Sequences, FiniteSets, TLC

VARIABLES
  req,          \* the request being served: route, headers, params, body
  locals,       \* res.locals of the request being served
  pc,           \* where the request is: idle, authenticateJWT, chain, handler, error, done
  idx,          \* index of the next middleware of the route's chain
  err,          \* the error handed to next(err), "none" when there is none
  res,          \* the response sent
  log,          \* the middleware that ran for this request, with what each handed to next
  called,       \* the model methods the route handler invoked
  jobs,         \* the jobs table: id -> salary
  nextId,       \* the jobs table's SERIAL id counter
  applications, \* the applications table: <<username, job id>>
  sqlArgs,      \* the arguments of a call of sqlForPartialUpdate
  sqlResult,    \* what the call returned or threw, <<>> before the call
  companies,    \* the companies table: a set of rows
  creates,      \* the calls of Company.create in flight, one per caller
  upd           \* the last call of Company.update or Company.remove, <<>> when none

vars == <<req, locals, pc, idx, err, res, log, called, jobs, nextId, applications,
          sqlArgs, sqlResult, companies, creates, upd>>

(***************************************************************************)
(* Bounds of the model.                                                    *)
(***************************************************************************)
MaxJobs == 2
MaxSalary == 2
MaxCalls == 3
MaxFields == 2
NumCallers == 2

TokenUsernames == {"u1", "admin"}
PathUsernames == {"u1", "U1", "u2"}
PathIds == 1..(MaxJobs + 1)

(***************************************************************************)
(* Values.                                                                 *)
(***************************************************************************)
Has(obj, key) == key \in DOMAIN obj

\* JavaScript truthiness of obj[key] for a boolean-or-undefined property
Truthy(obj, key) == Has(obj, key) /\ obj[key]

Payloads == [username : TokenUsernames, isAdmin : BOOLEAN] \cup [username : TokenUsernames]

AdminPayload == [username |-> "admin", isAdmin |-> TRUE]

\* a token string: what jwt.verify will make of it, and the payload it encodes
Tokens ==
  [kind : {"valid"}, payload : Payloads]
    \cup [kind : {"expired", "badsig", "malformed", "empty"}, payload : {AdminPayload}]

MalformedToken == [kind |-> "malformed", payload |-> AdminPayload]

\* the authorization header string is scheme \o token
Schemes == {"", "Bearer ", "bearer ", "Basic "}

HeaderStrings == [scheme : Schemes, token : Tokens]

\* req.headers: with or without the authorization key
HeaderObjects == {<<>>} \cup [authorization : HeaderStrings]

Callers == 1..NumCallers

NoCall == [pc |-> "idle", data |-> <<>>, result |-> "none"]

NoCreates == [p \in Callers |-> NoCall]

NoRes == [status |-> 0, body |-> "none"]

Idle == [route |-> "none", headers |-> <<>>, params |-> <<>>, body |-> <<>>]

(***************************************************************************)
(* Middleware.                                                             *)
(***************************************************************************)

\* a string is falsy in JavaScript exactly when it is empty
IsEmptyString(h) == h.scheme = "" /\ h.token.kind = "empty"

\* authHeader.replace(/^[Bb]earer /, "").trim()
StripBearer(h) ==
  IF h.scheme \in {"Bearer ", "bearer "} THEN h.token
  ELSE IF h.scheme = "" THEN h.token
  ELSE MalformedToken

\* a mutant of VerifyOk: the expiry of the token is not checked
VerifyOkIgnoreExpiration(t) == t.kind \in {"valid", "expired"}

\* jwt.verify(token, SECRET_KEY): the payload, or it throws
VerifyOk(t) == t.kind = "valid"

\* a mutant of authenticateJWT: the payload is decoded without verifying the token
authenticateJWTDecodeOnly(headers, l) ==
  IF Has(headers, "authorization") /\ ~IsEmptyString(headers.authorization)
    THEN [k \in DOMAIN l \cup {"user"} |->
            IF k = "user" THEN StripBearer(headers.authorization).payload ELSE l[k]]
    ELSE l

\* res.locals after authenticateJWT; it always calls next() with no error
authenticateJWT(headers, l) ==
  IF Has(headers, "authorization") /\ ~IsEmptyString(headers.authorization)
    THEN IF VerifyOk(StripBearer(headers.authorization))
           THEN [k \in DOMAIN l \cup {"user"} |->
                   IF k = "user" THEN StripBearer(headers.authorization).payload ELSE l[k]]
           ELSE l
    ELSE l

\* a mutant of ensureLoggedIn: a missing user is reported as Forbidden
ensureLoggedInForbidden(l) ==
  IF ~Has(l, "user") THEN "Forbidden" ELSE "none"

\* what ensureLoggedIn hands to next
ensureLoggedIn(l) ==
  IF ~Has(l, "user") THEN "Unauthorized" ELSE "none"

\* a mutant of ensureAdmin: a missing user is reported as Unauthorized
ensureAdminUnauthorized(l) ==
  IF ~Has(l, "user") THEN "Unauthorized"
  ELSE IF ~Truthy(l.user, "isAdmin") THEN "Forbidden" ELSE "none"

\* a mutant of ensureAdmin: any user passes
ensureAdminAnyUser(l) ==
  IF ~Has(l, "user") THEN "Forbidden" ELSE "none"

\* what ensureAdmin hands to next
ensureAdmin(l) ==
  IF ~Has(l, "user") \/ ~Truthy(l.user, "isAdmin") THEN "Forbidden" ELSE "none"

\* a mutant of ensureAdminOrUser: only the owner passes
ensureAdminOrUserOwnerOnly(l, params) ==
  IF ~Has(l, "user") \/ l.user.username # params.username
    THEN "Forbidden" ELSE "none"

\* what ensureAdminOrUser hands to next
ensureAdminOrUser(l, params) ==
  IF ~Has(l, "user")
       \/ (~Truthy(l.user, "isAdmin") /\ l.user.username # params.username)
    THEN "Forbidden" ELSE "none"

(***************************************************************************)
(* Routes.                                                                 *)
(***************************************************************************)
AdminRoutes == {"POST /users", "GET /users", "POST /jobs", "PATCH /jobs/:id", "DELETE /jobs/:id"}

SelfRoutes == {"GET /users/:username", "PATCH /users/:username", "DELETE /users/:username"}

ApplyRoute == "POST /users/:username/jobs/:id"

PublicRoutes == {"GET /jobs"}

Routes == AdminRoutes \cup SelfRoutes \cup {ApplyRoute} \cup PublicRoutes

\* a mutant of Chain: the admin-only routes check the admin flag before the login
ChainAdminFirst(r) ==
  IF r \in AdminRoutes THEN <<"ensureAdmin", "ensureLoggedIn">>
  ELSE IF r \in SelfRoutes THEN <<"ensureLoggedIn", "ensureAdminOrUser">>
  ELSE IF r = ApplyRoute THEN <<"ensureLoggedIn">>
  ELSE <<>>

\* the middleware each route wires before its handler
Chain(r) ==
  IF r \in AdminRoutes THEN <<"ensureLoggedIn", "ensureAdmin">>
  ELSE IF r \in SelfRoutes THEN <<"ensureLoggedIn", "ensureAdminOrUser">>
  ELSE IF r = ApplyRoute THEN <<"ensureLoggedIn">>
  ELSE <<>>

\* req.params of a route
ParamsOf(r) ==
  IF r \in SelfRoutes THEN [username : PathUsernames]
  ELSE IF r = ApplyRoute THEN [username : PathUsernames, id : PathIds]
  ELSE IF r \in {"PATCH /jobs/:id", "DELETE /jobs/:id"} THEN [id : PathIds]
  ELSE {<<>>}

\* req.body (req.query for GET /jobs) of a route
BodiesOf(r) ==
  IF r \in {"POST /users", "PATCH /users/:username"} THEN [valid : BOOLEAN]
  ELSE IF r = "POST /jobs" THEN [valid : BOOLEAN, salary : 1..MaxSalary]
  ELSE IF r = "PATCH /jobs/:id" THEN [salary : 1..MaxSalary]
  ELSE IF r = "GET /jobs" THEN [filtered : BOOLEAN]
  ELSE {<<>>}

\* the status the error handler answers with
StatusOf(e) ==
  CASE e = "BadRequest" -> 400
    [] e = "Unauthorized" -> 401
    [] e = "Forbidden" -> 403
    [] e = "NotFound" -> 404
    [] OTHER -> 500

(***************************************************************************)
(* The partial-update SQL builder.  An object is the sequence of its       *)
(* key/value pairs in Object.keys order; a SQL string is the sequence of   *)
(* its lexical tokens.                                                     *)
(***************************************************************************)
PatchKeys == {"firstName", "age", "numEmployees"}

PatchValues == {"Aliya", "firstName"}

ColumnNames ==
  [firstName |-> "first_name", age |-> "age", numEmployees |-> "num_employees",
   logoUrl |-> "logo_url"]

Patches ==
  UNION {{p \in [1..n -> [key : PatchKeys, value : PatchValues]] :
            \A i, j \in 1..n : i # j => p[i].key # p[j].key} : n \in 0..MaxFields}

FieldMaps == {[k \in D |-> ColumnNames[k]] : D \in SUBSET DOMAIN ColumnNames}

Quote(name) == "\"" \o name \o "\""

\* a mutant of Column: the field map is never consulted
ColumnUnmapped(jsToSql, k) == k

\* the column a key is written to: jsToSql[k] when the map has it, else the key
Column(jsToSql, k) == IF Has(jsToSql, k) THEN jsToSql[k] ELSE k

\* a mutant of Fragment: placeholders numbered from the 0-based index
FragmentZeroBased(jsToSql, k, i) == <<Quote(Column(jsToSql, k)), "=", "$" \o ToString(i - 1)>>

\* "<column>"=$<position>, for the key at the 1-based position i
Fragment(jsToSql, k, i) == <<Quote(Column(jsToSql, k)), "=", "$" \o ToString(i)>>

RECURSIVE Join(_)
\* cols.join(", ")
Join(cols) ==
  IF cols = <<>> THEN <<>>
  ELSE IF Len(cols) = 1 THEN cols[1]
  ELSE cols[1] \o <<", ">> \o Join(Tail(cols))

\* the set clause and the bind values of a patch
Compile(dataToUpdate, jsToSql) ==
  [setCols |-> Join([i \in 1..Len(dataToUpdate) |-> Fragment(jsToSql, dataToUpdate[i].key, i)]),
   values |-> [i \in 1..Len(dataToUpdate) |-> dataToUpdate[i].value]]

\* a mutant of sqlForPartialUpdate: an empty patch is compiled like any other
sqlForPartialUpdateUnchecked(dataToUpdate, jsToSql) == Compile(dataToUpdate, jsToSql)

sqlForPartialUpdate(dataToUpdate, jsToSql) ==
  IF Len(dataToUpdate) = 0
    THEN [threw |-> "BadRequest"]
    ELSE Compile(dataToUpdate, jsToSql)

(***************************************************************************)
(* The request pipeline.                                                   *)
(***************************************************************************)
Init ==
  /\ req = Idle
  /\ locals = <<>>
  /\ pc = "idle"
  /\ idx = 0
  /\ err = "none"
  /\ res = NoRes
  /\ log = <<>>
  /\ called = <<>>
  /\ jobs = <<>>
  /\ nextId = 1
  /\ applications = {}
  /\ sqlArgs = <<>>
  /\ sqlResult = <<>>
  /\ companies = {}
  /\ creates = NoCreates
  /\ upd = <<>>

dbVars == <<jobs, nextId, applications>>

sqlVars == <<sqlArgs, sqlResult>>

companyVars == <<companies, creates, upd>>

\* a request arrives; res.locals is a fresh object
Receive ==
  /\ pc = "idle"
  /\ \E r \in Routes, h \in HeaderObjects :
       \E p \in ParamsOf(r), b \in BodiesOf(r) :
         /\ r = "POST /jobs" => nextId <= MaxJobs
         /\ req' = [route |-> r, headers |-> h, params |-> p, body |-> b]
  /\ locals' = <<>>
  /\ pc' = "authenticateJWT"
  /\ idx' = 1
  /\ err' = "none"
  /\ res' = NoRes
  /\ log' = <<>>
  /\ called' = <<>>
  /\ UNCHANGED dbVars
  /\ UNCHANGED sqlVars
  /\ UNCHANGED companyVars

\* where control goes when the middleware at position i calls next()
After(i) == IF i >= Len(Chain(req.route)) THEN "handler" ELSE "chain"

AuthenticateJWT ==
  /\ pc = "authenticateJWT"
  /\ locals' = authenticateJWT(req.headers, locals)
  /\ log' = Append(log, [stage |-> "authenticateJWT", err |-> "none"])
  /\ pc' = After(0)
  /\ UNCHANGED <<req, idx, err, res, called>>
  /\ UNCHANGED dbVars
  /\ UNCHANGED sqlVars
  /\ UNCHANGED companyVars

\* a mutant of Stage: the middleware goes on after it handed its error to next
StageFallThrough(name, e) ==
  /\ pc = "chain"
  /\ Chain(req.route)[idx] = name
  /\ log' = Append(log, [stage |-> name, err |-> e])
  /\ pc' = After(idx)
  /\ idx' = idx + 1
  /\ err' = IF e = "none" THEN err ELSE e
  /\ UNCHANGED <<req, locals, res, called>>
  /\ UNCHANGED dbVars
  /\ UNCHANGED sqlVars
  /\ UNCHANGED companyVars

\* a middleware of the chain hands e to next: next() goes on, next(err) skips to the error handler
Stage(name, e) ==
  /\ pc = "chain"
  /\ Chain(req.route)[idx] = name
  /\ log' = Append(log, [stage |-> name, err |-> e])
  /\ IF e = "none"
       THEN /\ pc' = After(idx)
            /\ idx' = idx + 1
            /\ err' = err
       ELSE /\ pc' = "error"
            /\ idx' = idx
            /\ err' = e
  /\ UNCHANGED <<req, locals, res, called>>
  /\ UNCHANGED dbVars
  /\ UNCHANGED sqlVars
  /\ UNCHANGED companyVars

EnsureLoggedIn == Stage("ensureLoggedIn", ensureLoggedIn(locals))

EnsureAdmin == Stage("ensureAdmin", ensureAdmin(locals))

EnsureAdminOrUser == Stage("ensureAdminOrUser", ensureAdminOrUser(locals, req.params))

\* the application's error handler answers with the error's status
ErrorHandler ==
  /\ pc = "error"
  /\ res' = [status |-> StatusOf(err), body |-> "error"]
  /\ pc' = "done"
  /\ UNCHANGED <<req, locals, idx, err, log, called>>
  /\ UNCHANGED dbVars
  /\ UNCHANGED sqlVars
  /\ UNCHANGED companyVars

\* the response is sent and the request is over
Finish ==
  /\ pc = "done"
  /\ req' = Idle
  /\ locals' = <<>>
  /\ pc' = "idle"
  /\ idx' = 0
  /\ err' = "none"
  /\ res' = NoRes
  /\ log' = <<>>
  /\ called' = <<>>
  /\ UNCHANGED dbVars
  /\ UNCHANGED sqlVars
  /\ UNCHANGED companyVars

(***************************************************************************)
(* Route handlers.  A handler answers with r, or hands e to next.          *)
(***************************************************************************)
AtHandler(route) == pc = "handler" /\ req.route = route

Handle(e, r, c) ==
  /\ log' = Append(log, [stage |-> "handler", err |-> e])
  /\ called' = c
  /\ IF e = "none"
       THEN /\ res' = r
            /\ pc' = "done"
            /\ err' = err
       ELSE /\ res' = res
            /\ pc' = "error"
            /\ err' = e
  /\ UNCHANGED <<req, locals, idx>>

Answer(status, body) == [status |-> status, body |-> body]

\* POST /users: validate the body, User.register
PostUsers ==
  /\ AtHandler("POST /users")
  /\ UNCHANGED sqlVars
  /\ UNCHANGED companyVars
  /\ IF ~req.body.valid
       THEN Handle("BadRequest", NoRes, <<>>)
       ELSE \E e \in {"none", "BadRequest"} :
              Handle(e, Answer(201, "user"), <<"User.register">>)
  /\ UNCHANGED dbVars

\* GET /users: User.findAll
GetUsers ==
  /\ AtHandler("GET /users")
  /\ UNCHANGED sqlVars
  /\ UNCHANGED companyVars
  /\ Handle("none", Answer(200, "users"), <<"User.findAll">>)
  /\ UNCHANGED dbVars

\* GET /users/:username: User.get, then User.getAppliedJobs
GetUser ==
  /\ AtHandler("GET /users/:username")
  /\ UNCHANGED sqlVars
  /\ UNCHANGED companyVars
  /\ \/ Handle("NotFound", NoRes, <<"User.get">>)
     \/ Handle("none", Answer(404, "error"), <<"User.get">>)
     \/ Handle("none", Answer(200, "user"), <<"User.get", "User.getAppliedJobs">>)
  /\ UNCHANGED dbVars

\* PATCH /users/:username: validate the body, User.update
PatchUser ==
  /\ AtHandler("PATCH /users/:username")
  /\ UNCHANGED sqlVars
  /\ UNCHANGED companyVars
  /\ IF ~req.body.valid
       THEN Handle("BadRequest", NoRes, <<>>)
       ELSE \E e \in {"none", "NotFound"} :
              Handle(e, Answer(200, "user"), <<"User.update">>)
  /\ UNCHANGED dbVars

\* DELETE /users/:username: User.remove
DeleteUser ==
  /\ AtHandler("DELETE /users/:username")
  /\ UNCHANGED sqlVars
  /\ UNCHANGED companyVars
  /\ \E e \in {"none", "NotFound"} :
       Handle(e, Answer(200, "deleted"), <<"User.remove">>)
  /\ UNCHANGED dbVars

\* POST /users/:username/jobs/:id: the handler reads req.user, not res.locals.user
PostApply ==
  /\ AtHandler(ApplyRoute)
  /\ UNCHANGED sqlVars
  /\ UNCHANGED companyVars
  /\ IF ~Has(req, "user")
       THEN /\ Handle("TypeError", NoRes, <<>>)
            /\ UNCHANGED dbVars
       ELSE IF ~Truthy(req.user, "isAdmin") /\ req.user.username # req.params.username
         THEN /\ Handle("none", Answer(403, "error"), <<>>)
              /\ UNCHANGED dbVars
         ELSE /\ Handle("none", Answer(200, "applied"), <<"User.applyForJob">>)
              /\ applications' = applications \cup {<<req.params.username, req.params.id>>}
              /\ UNCHANGED <<jobs, nextId>>

\* POST /jobs: Job.create
PostJobs ==
  /\ AtHandler("POST /jobs")
  /\ UNCHANGED sqlVars
  /\ UNCHANGED companyVars
  /\ IF ~req.body.valid
       THEN /\ Handle("SequelizeValidationError", NoRes, <<"Job.create">>)
            /\ UNCHANGED dbVars
       ELSE /\ Handle("none", Answer(201, "job"), <<"Job.create">>)
            /\ jobs' = [i \in DOMAIN jobs \cup {nextId} |->
                          IF i = nextId THEN req.body.salary ELSE jobs[i]]
            /\ nextId' = nextId + 1
            /\ UNCHANGED applications

\* GET /jobs: the filter is built with Op, which the module never imports
GetJobs ==
  /\ AtHandler("GET /jobs")
  /\ UNCHANGED sqlVars
  /\ UNCHANGED companyVars
  /\ IF req.body.filtered
       THEN Handle("ReferenceError", NoRes, <<>>)
       ELSE Handle("none", Answer(200, "jobs"), <<"Job.findAll">>)
  /\ UNCHANGED dbVars

\* PATCH /jobs/:id: Job.findByPk, job.update
PatchJob ==
  /\ AtHandler("PATCH /jobs/:id")
  /\ UNCHANGED sqlVars
  /\ UNCHANGED companyVars
  /\ IF ~Has(jobs, req.params.id)
       THEN /\ Handle("Error", NoRes, <<"Job.findByPk">>)
            /\ UNCHANGED dbVars
       ELSE /\ Handle("none", Answer(200, "job"), <<"Job.findByPk", "job.update">>)
            /\ jobs' = [jobs EXCEPT ![req.params.id] = req.body.salary]
            /\ UNCHANGED <<nextId, applications>>

\* DELETE /jobs/:id: Job.findByPk, job.destroy
DeleteJob ==
  /\ AtHandler("DELETE /jobs/:id")
  /\ UNCHANGED sqlVars
  /\ UNCHANGED companyVars
  /\ IF ~Has(jobs, req.params.id)
       THEN /\ Handle("Error", NoRes, <<"Job.findByPk">>)
            /\ UNCHANGED dbVars
       ELSE /\ Handle("none", Answer(200, "deleted"), <<"Job.findByPk", "job.destroy">>)
            /\ jobs' = [i \in DOMAIN jobs \ {req.params.id} |-> jobs[i]]
            /\ UNCHANGED <<nextId, applications>>

Next ==
  \/ Receive
  \/ AuthenticateJWT
  \/ EnsureLoggedIn
  \/ EnsureAdmin
  \/ EnsureAdminOrUser
  \/ ErrorHandler
  \/ Finish
  \/ PostUsers
  \/ GetUsers
  \/ GetUser
  \/ PatchUser
  \/ DeleteUser
  \/ PostApply
  \/ PostJobs
  \/ GetJobs
  \/ PatchJob
  \/ DeleteJob

Spec == Init /\ [][Next]_vars

(***************************************************************************)
(* The middleware of a request as one function of the request: what each   *)
(* hands to next, up to the first that hands an error.                     *)
(***************************************************************************)
StageResult(name, l, params) ==
  CASE name = "ensureLoggedIn" -> ensureLoggedIn(l)
    [] name = "ensureAdmin" -> ensureAdmin(l)
    [] name = "ensureAdminOrUser" -> ensureAdminOrUser(l, params)

RECURSIVE RunChain(_, _, _, _)
RunChain(chain, i, l, params) ==
  IF i > Len(chain) THEN <<>>
  ELSE IF StageResult(chain[i], l, params) = "none"
    THEN <<[stage |-> chain[i], err |-> "none"]>> \o RunChain(chain, i + 1, l, params)
    ELSE <<[stage |-> chain[i], err |-> StageResult(chain[i], l, params)]>>

RunRequest(route, headers, params) ==
  [locals |-> authenticateJWT(headers, <<>>),
   log |-> <<[stage |-> "authenticateJWT", err |-> "none"]>>
             \o RunChain(Chain(route), 1, authenticateJWT(headers, <<>>), params)]

(***************************************************************************)
(* The middleware called directly, as exported functions, on any           *)
(* res.locals and any req.params.username, in any order.                   *)
(***************************************************************************)
LocalsObjects == {<<>>} \cup [user : Payloads]

InitUnit ==
  /\ req \in [route : {"none"}, headers : {<<>>}, params : [username : PathUsernames],
              body : {<<>>}]
  /\ locals \in LocalsObjects
  /\ pc = "unit"
  /\ idx = 0
  /\ err = "none"
  /\ res = NoRes
  /\ log = <<>>
  /\ called = <<>>
  /\ jobs = <<>>
  /\ nextId = 1
  /\ applications = {}
  /\ sqlArgs = <<>>
  /\ sqlResult = <<>>
  /\ companies = {}
  /\ creates = NoCreates
  /\ upd = <<>>

\* one call middleware(req, res, next): what next received is logged
Call(name, e) ==
  /\ pc = "unit"
  /\ Len(log) < MaxCalls
  /\ log' = Append(log, [stage |-> name, err |-> e])
  /\ UNCHANGED <<req, locals, pc, idx, err, res, called>>
  /\ UNCHANGED dbVars
  /\ UNCHANGED sqlVars
  /\ UNCHANGED companyVars

CallEnsureLoggedIn == Call("ensureLoggedIn", ensureLoggedIn(locals))

CallEnsureAdmin == Call("ensureAdmin", ensureAdmin(locals))

CallEnsureAdminOrUser == Call("ensureAdminOrUser", ensureAdminOrUser(locals, req.params))

NextUnit ==
  \/ CallEnsureLoggedIn
  \/ CallEnsureAdmin
  \/ CallEnsureAdminOrUser

SpecUnit == InitUnit /\ [][NextUnit]_vars

(***************************************************************************)
(* sqlForPartialUpdate called on any patch and any field map.              *)
(***************************************************************************)
InitSql ==
  /\ req = Idle
  /\ locals = <<>>
  /\ pc = "sql"
  /\ idx = 0
  /\ err = "none"
  /\ res = NoRes
  /\ log = <<>>
  /\ called = <<>>
  /\ jobs = <<>>
  /\ nextId = 1
  /\ applications = {}
  /\ sqlArgs \in [dataToUpdate : Patches, jsToSql : FieldMaps]
  /\ sqlResult = <<>>
  /\ companies = {}
  /\ creates = NoCreates
  /\ upd = <<>>

CallSqlForPartialUpdate ==
  /\ pc = "sql"
  /\ sqlResult = <<>>
  /\ sqlResult' = sqlForPartialUpdate(sqlArgs.dataToUpdate, sqlArgs.jsToSql)
  /\ UNCHANGED <<req, locals, pc, idx, err, res, log, called, sqlArgs>>
  /\ UNCHANGED dbVars
  /\ UNCHANGED companyVars

NextSql == CallSqlForPartialUpdate

SpecSql == InitSql /\ [][NextSql]_vars

(***************************************************************************)
(* The Company model on the companies table.  Company.create is two        *)
(* queries with an await between them, so calls interleave; Company.update *)
(* and Company.remove are one query each.                                  *)
(***************************************************************************)
Columns == {"handle", "name", "num_employees", "description", "logo_url"}

Handles == {"c1", "c2", "C1"}

\* lower(handle), on the handles of the model
Lower(h) == IF h = "C1" THEN "c1" ELSE h

CompanyValues == {"v1", "v2"}

CompanyKeys == {"name", "numEmployees", "logoUrl"}

CompanyPatches ==
  UNION {{p \in [1..n -> [key : CompanyKeys, value : CompanyValues]] :
            \A i, j \in 1..n : i # j => p[i].key # p[j].key} : n \in 0..MaxFields}

CreateData ==
  [handle : Handles, name : CompanyValues, numEmployees : {"v1"}, description : {"v1"},
   logoUrl : {"v1"}]

\* the field map Company.update passes to sqlForPartialUpdate
CompanyJsToSql == [numEmployees |-> "num_employees", logoUrl |-> "logo_url"]

\* the row INSERT INTO companies writes for the data of Company.create
RowOf(data) ==
  [handle |-> data.handle, name |-> data.name, num_employees |-> data.numEmployees,
   description |-> data.description, logo_url |-> data.logoUrl]

\* a mutant of Rejects: the table has no PRIMARY KEY on handle
RejectsNoPrimaryKey(table, row) ==
  \/ row.handle # Lower(row.handle)
  \/ \E r \in table : r.name = row.name

\* the table refuses the row next to the rows of table: PRIMARY KEY and CHECK on
\* handle, UNIQUE on name
Rejects(table, row) ==
  \/ row.handle # Lower(row.handle)
  \/ \E r \in table : r.handle = row.handle
  \/ \E r \in table : r.name = row.name

\* a mutant of handleVarIdx: the handle reuses the last placeholder of the set clause
handleVarIdxLast(values) == "$" \o ToString(Len(values))

\* "$" + (values.length + 1)
handleVarIdx(values) == "$" \o ToString(Len(values) + 1)

\* the UPDATE statement of Company.update, as tokens
querySql(setCols, handleIdx) ==
  <<"UPDATE companies SET">> \o setCols
    \o <<"WHERE handle =", handleIdx,
         "RETURNING handle, name, num_employees, description, logo_url">>

\* the statement and the bind list Company.update sends, or what sqlForPartialUpdate threw
UpdateQuery(handle, data) ==
  LET compiled == sqlForPartialUpdate(data, CompanyJsToSql)
  IN IF Has(compiled, "threw")
       THEN [threw |-> compiled.threw]
       ELSE [sql |-> querySql(compiled.setCols, handleVarIdx(compiled.values)),
             binds |-> compiled.values \o <<handle>>]

(***************************************************************************)
(* The database executing the UPDATE statement with its bind list.         *)
(***************************************************************************)
MaxParams == MaxFields + 2

\* the index of a placeholder token $k, 0 when the token is not one
ParamIndex(tok) ==
  IF \E k \in 1..MaxParams : tok = "$" \o ToString(k)
    THEN CHOOSE k \in 1..MaxParams : tok = "$" \o ToString(k)
    ELSE 0

\* the column a quoted identifier names, "" when the table has no such column
ColumnOf(tok) ==
  IF \E c \in Columns : tok = Quote(c) THEN CHOOSE c \in Columns : tok = Quote(c) ELSE ""

\* the number of "<column>"=$<k> fragments of the statement
NumAssignments(sql) == (Len(sql) - 2) \div 4

\* the placeholder indexes the statement refers to
ParamsUsed(sql) ==
  {ParamIndex(sql[4 * i]) : i \in 1..NumAssignments(sql)} \cup {ParamIndex(sql[Len(sql) - 1])}

\* the database refuses the statement: unknown column, or the bind list does not
\* supply exactly the parameters the statement refers to
BadStatement(sql, binds) ==
  \/ \E i \in 1..NumAssignments(sql) : ColumnOf(sql[4 * i - 2]) = ""
  \/ ParamsUsed(sql) # 1..Len(binds)

\* the row after the SET clause is applied to it
Assigned(sql, binds, row) ==
  [c \in Columns |->
     IF \E i \in 1..NumAssignments(sql) : ColumnOf(sql[4 * i - 2]) = c
       THEN binds[ParamIndex(sql[4 * (CHOOSE i \in 1..NumAssignments(sql) :
                                        ColumnOf(sql[4 * i - 2]) = c)])]
       ELSE row[c]]

\* the rows WHERE handle = $k selects
Matching(sql, binds, table) == {r \in table : r.handle = binds[ParamIndex(sql[Len(sql) - 1])]}

\* the table after the UPDATE
Updated(sql, binds, table) ==
  (table \ Matching(sql, binds, table))
    \cup {Assigned(sql, binds, r) : r \in Matching(sql, binds, table)}

\* the UPDATE would break PRIMARY KEY, CHECK or UNIQUE
UpdateRejected(sql, binds, table) ==
  \E r \in Matching(sql, binds, table) :
    Rejects(table \ {r}, Assigned(sql, binds, r))

(***************************************************************************)
(* Calls of the Company model.                                             *)
(***************************************************************************)
InitCompany ==
  /\ req = Idle
  /\ locals = <<>>
  /\ pc = "company"
  /\ idx = 0
  /\ err = "none"
  /\ res = NoRes
  /\ log = <<>>
  /\ called = <<>>
  /\ jobs = <<>>
  /\ nextId = 1
  /\ applications = {}
  /\ sqlArgs = <<>>
  /\ sqlResult = <<>>
  /\ companies = {}
  /\ creates = NoCreates
  /\ upd = <<>>

otherVars == <<req, locals, pc, idx, err, res, log, called, jobs, nextId, applications,
               sqlArgs, sqlResult>>

\* a caller calls Company.create(data)
CreateCall(p) ==
  /\ pc = "company"
  /\ upd = <<>>
  /\ creates[p].pc = "idle"
  /\ \E d \in CreateData :
       creates' = [creates EXCEPT ![p] = [pc |-> "check", data |-> d, result |-> "none"]]
  /\ UNCHANGED <<companies, upd>>
  /\ UNCHANGED otherVars

\* SELECT handle FROM companies WHERE handle = $1, then the throw on a duplicate
CreateDuplicateCheck(p) ==
  /\ pc = "company"
  /\ creates[p].pc = "check"
  /\ IF \E r \in companies : r.handle = creates[p].data.handle
       THEN creates' = [creates EXCEPT ![p].pc = "done", ![p].result = "BadRequest"]
       ELSE creates' = [creates EXCEPT ![p].pc = "insert"]
  /\ UNCHANGED <<companies, upd>>
  /\ UNCHANGED otherVars

\* INSERT INTO companies ... RETURNING ...: the row is stored, or the query rejects
CreateInsert(p) ==
  /\ pc = "company"
  /\ creates[p].pc = "insert"
  /\ IF Rejects(companies, RowOf(creates[p].data))
       THEN /\ creates' = [creates EXCEPT ![p].pc = "done", ![p].result = "DatabaseError"]
            /\ companies' = companies
       ELSE /\ creates' = [creates EXCEPT ![p].pc = "done", ![p].result = "ok"]
            /\ companies' = companies \cup {RowOf(creates[p].data)}
  /\ UNCHANGED upd
  /\ UNCHANGED otherVars

\* the caller has the company or the error
CreateReturn(p) ==
  /\ pc = "company"
  /\ creates[p].pc = "done"
  /\ creates' = [creates EXCEPT ![p] = NoCall]
  /\ UNCHANGED <<companies, upd>>
  /\ UNCHANGED otherVars

NoCreateInFlight == \A p \in Callers : creates[p].pc = "idle"

\* Company.update(handle, data)
Update ==
  /\ pc = "company"
  /\ upd = <<>>
  /\ NoCreateInFlight
  /\ \E h \in Handles, d \in CompanyPatches :
       LET q == UpdateQuery(h, d)
       IN IF Has(q, "threw")
            THEN /\ upd' = [op |-> "update", handle |-> h, data |-> d, sql |-> <<>>,
                            binds |-> <<>>, result |-> q.threw]
                 /\ companies' = companies
            ELSE IF BadStatement(q.sql, q.binds) \/ UpdateRejected(q.sql, q.binds, companies)
              THEN /\ upd' = [op |-> "update", handle |-> h, data |-> d, sql |-> q.sql,
                              binds |-> q.binds, result |-> "DatabaseError"]
                   /\ companies' = companies
              ELSE /\ upd' = [op |-> "update", handle |-> h, data |-> d, sql |-> q.sql,
                              binds |-> q.binds,
                              result |-> IF Matching(q.sql, q.binds, companies) = {}
                                           THEN "NotFound" ELSE "ok"]
                   /\ companies' = Updated(q.sql, q.binds, companies)
  /\ UNCHANGED creates
  /\ UNCHANGED otherVars

\* Company.remove(handle)
Remove ==
  /\ pc = "company"
  /\ upd = <<>>
  /\ NoCreateInFlight
  /\ \E h \in Handles :
       /\ upd' = [op |-> "remove", handle |-> h, data |-> <<>>, sql |-> <<>>, binds |-> <<h>>,
                  result |-> IF \E r \in companies : r.handle = h THEN "ok" ELSE "NotFound"]
       /\ companies' = {r \in companies : r.handle # h}
  /\ UNCHANGED creates
  /\ UNCHANGED otherVars

\* the caller of Company.update or Company.remove has its result
Return ==
  /\ pc = "company"
  /\ upd # <<>>
  /\ upd' = <<>>
  /\ UNCHANGED <<companies, creates>>
  /\ UNCHANGED otherVars

NextCompany ==
  \/ \E p \in Callers : CreateCall(p)
  \/ \E p \in Callers : CreateDuplicateCheck(p)
  \/ \E p \in Callers : CreateInsert(p)
  \/ \E p \in Callers : CreateReturn(p)
  \/ Update
  \/ Remove
  \/ Return

SpecCompany == InitCompany /\ [][NextCompany]_vars

(***************************************************************************)
(* Vocabulary of the properties.                                           *)
(***************************************************************************)

\* the request carries a credential that verifies
ValidCredential(headers) ==
  /\ Has(headers, "authorization")
  /\ headers.authorization.scheme \in {"", "Bearer ", "bearer "}
  /\ headers.authorization.token.kind = "valid"

\* the identity a verifying credential encodes
DecodedIdentity(headers) == headers.authorization.token.payload

IsAdminIdentity(id) == Has(id, "isAdmin") /\ id.isAdmin = TRUE

HandlerRan == \E i \in 1..Len(log) : log[i].stage = "handler"

LogEntries(name) == {i \in 1..Len(log) : log[i].stage = name}

(***************************************************************************)
(* Properties.                                                             *)
(***************************************************************************)

\* C1: ensureAdminOrUser continues if and only if res.locals.user is set and
\* it is an admin or its username is exactly req.params.username; in every
\* other case it hands a Forbidden error to next.
C1_AdminOrUser ==
  \A i \in LogEntries("ensureAdminOrUser") :
    log[i].err =
      IF Has(locals, "user")
           /\ (IsAdminIdentity(locals.user) \/ locals.user.username = req.params.username)
        THEN "none" ELSE "Forbidden"

\* an admin passed ensureAdminOrUser for somebody else's username
C1_Witness ==
  /\ pc = "unit"
  /\ LogEntries("ensureAdminOrUser") # {}
  /\ Has(locals, "user")
  /\ IsAdminIdentity(locals.user)
  /\ locals.user.username # req.params.username
  /\ \A i \in LogEntries("ensureAdminOrUser") : log[i].err = "none"

\* C2: ensureAdmin hands a Forbidden error to next when res.locals.user is
\* unset or its isAdmin is false or missing, and continues otherwise, whether
\* or not ensureLoggedIn was called before it.
C2_Admin ==
  \A i \in LogEntries("ensureAdmin") :
    log[i].err =
      IF ~Has(locals, "user") \/ ~IsAdminIdentity(locals.user) THEN "Forbidden" ELSE "none"

\* ensureAdmin refused a user without isAdmin, first on its own and then after ensureLoggedIn
C2_Witness ==
  /\ pc = "unit"
  /\ Len(log) = 3
  /\ log[1] = [stage |-> "ensureAdmin", err |-> "Forbidden"]
  /\ log[2] = [stage |-> "ensureLoggedIn", err |-> "none"]
  /\ log[3] = [stage |-> "ensureAdmin", err |-> "Forbidden"]
  /\ Has(locals, "user")
  /\ ~Has(locals.user, "isAdmin")

\* C3: ensureLoggedIn hands an Unauthorized error to next when res.locals.user
\* is unset and continues when it is set, admin or not.
C3_LoggedIn ==
  \A i \in LogEntries("ensureLoggedIn") :
    log[i].err = IF Has(locals, "user") THEN "none" ELSE "Unauthorized"

\* ensureLoggedIn let a non-admin through
C3_Witness ==
  /\ pc = "unit"
  /\ Has(locals, "user")
  /\ ~IsAdminIdentity(locals.user)
  /\ \E i \in LogEntries("ensureLoggedIn") : log[i].err = "none"

\* C4: authenticateJWT always continues without an error, whatever the
\* authorization header; afterwards res.locals.user is the decoded payload if
\* and only if a header was sent and verified, and is unset otherwise.
C4_Authenticate ==
  (pc \notin {"unit", "sql"} /\ Len(log) >= 1) =>
    /\ log[1] = [stage |-> "authenticateJWT", err |-> "none"]
    /\ Len(log) = 1 => (pc \in {"chain", "handler"} /\ err = "none")
    /\ Has(locals, "user") <=> ValidCredential(req.headers)
    /\ Has(locals, "user") => locals.user = DecodedIdentity(req.headers)

\* an expired token of an admin went through authenticateJWT: no error, no identity
C4_Witness ==
  /\ Len(log) = 1
  /\ log[1].stage = "authenticateJWT"
  /\ Has(req.headers, "authorization")
  /\ req.headers.authorization.scheme = "Bearer "
  /\ req.headers.authorization.token.kind = "expired"
  /\ locals = <<>>
  /\ pc \in {"chain", "handler"}

\* C5: on the admin-only routes a request without a verifying credential ends
\* with Unauthorized (401) and never Forbidden, a verified non-admin ends with
\* Forbidden (403), and only a verified admin reaches the handler; on a route
\* with no further middleware the request reaches the handler with no error.
C5_Composition ==
  /\ (req.route \in AdminRoutes /\ pc \in {"handler", "error", "done"}) =>
       IF ~ValidCredential(req.headers)
         THEN /\ ~HandlerRan
              /\ pc # "handler"
              /\ err = "Unauthorized"
              /\ pc = "done" => res.status = 401
         ELSE IF ~IsAdminIdentity(DecodedIdentity(req.headers))
           THEN /\ ~HandlerRan
                /\ pc # "handler"
                /\ err = "Forbidden"
                /\ pc = "done" => res.status = 403
           ELSE pc = "handler" \/ HandlerRan
  /\ (req.route \in PublicRoutes /\ Len(log) = 1) => (pc = "handler" /\ err = "none")

\* an admin-only route answered 401 to a request whose token has a bad signature
C5_Witness ==
  /\ req.route \in AdminRoutes
  /\ pc = "done"
  /\ Has(req.headers, "authorization")
  /\ req.headers.authorization.token.kind = "badsig"
  /\ res.status = 401
  /\ Len(log) = 2

\* C6: for a non-empty patch, values has one entry per key, the set clause has
\* one fragment per key in the patch's order, the i-th fragment uses
\* placeholder $i, values[i] is the value of the i-th key, and the fragments
\* are joined by a comma and a space.
C6_Placeholders ==
  (sqlResult # <<>> /\ Len(sqlArgs.dataToUpdate) > 0) =>
    LET P == sqlArgs.dataToUpdate
        M == sqlArgs.jsToSql
        n == Len(P)
    IN /\ DOMAIN sqlResult = {"setCols", "values"}
       /\ Len(sqlResult.values) = n
       /\ Len(sqlResult.setCols) = 4 * n - 1
       /\ \A i \in 1..n :
            /\ sqlResult.setCols[4 * i - 3] \in
                 {Quote(P[i].key)} \cup {Quote(M[k]) : k \in DOMAIN M \cap {P[i].key}}
            /\ sqlResult.setCols[4 * i - 2] = "="
            /\ sqlResult.setCols[4 * i - 1] = "$" \o ToString(i)
            /\ sqlResult.values[i] = P[i].value
       /\ \A i \in 1..(n - 1) : sqlResult.setCols[4 * i] = ", "

\* a patch of two keys was compiled; its second value is a string that is also a key of the map
C6_Witness ==
  /\ sqlResult # <<>>
  /\ Len(sqlArgs.dataToUpdate) = 2
  /\ sqlArgs.dataToUpdate[2].value = "firstName"
  /\ Has(sqlArgs.jsToSql, "firstName")
  /\ sqlResult.setCols[7] = "$2"
  /\ sqlResult.values[2] = "firstName"

\* C7: the quoted column of a patch key k is jsToSql[k] when the map has k and
\* k itself when it has not; keys of the map that are not in the patch produce
\* no fragment and no value.
C7_Columns ==
  (sqlResult # <<>> /\ Len(sqlArgs.dataToUpdate) > 0) =>
    LET P == sqlArgs.dataToUpdate
        M == sqlArgs.jsToSql
        n == Len(P)
    IN /\ \A i \in 1..n :
            sqlResult.setCols[4 * i - 3] =
              IF P[i].key \in DOMAIN M THEN Quote(M[P[i].key]) ELSE Quote(P[i].key)
       /\ Len(sqlResult.setCols) = 4 * n - 1
       /\ Len(sqlResult.values) = n

\* a mapped key, an unmapped key, and a map with a key the patch does not have
C7_Witness ==
  /\ sqlResult # <<>>
  /\ Len(sqlArgs.dataToUpdate) = 2
  /\ sqlArgs.dataToUpdate[1].key = "numEmployees"
  /\ sqlArgs.dataToUpdate[2].key = "firstName"
  /\ DOMAIN sqlArgs.jsToSql = {"numEmployees", "logoUrl"}
  /\ sqlResult.setCols[1] = "\"num_employees\""
  /\ sqlResult.setCols[5] = "\"firstName\""
  /\ Len(sqlResult.values) = 2

\* C8: called with an empty patch, sqlForPartialUpdate throws a BadRequest
\* error for every field map and returns no set clause and no values.
C8_NoData ==
  (sqlResult # <<>> /\ Len(sqlArgs.dataToUpdate) = 0) => sqlResult = [threw |-> "BadRequest"]

\* the empty patch was compiled against the empty map
C8_Witness ==
  /\ sqlArgs # <<>>
  /\ sqlArgs.dataToUpdate = <<>>
  /\ sqlArgs.jsToSql = <<>>
  /\ sqlResult = [threw |-> "BadRequest"]

\* C9: POST /users/:username/jobs/:id, for an authenticated identity, records
\* the application and answers { applied } when the identity is an admin or
\* the named user, and answers 403 without calling User.applyForJob otherwise.
C9_Apply ==
  (req.route = ApplyRoute /\ pc = "done" /\ Has(locals, "user")) =>
    IF IsAdminIdentity(locals.user) \/ locals.user.username = req.params.username
      THEN /\ res = [status |-> 200, body |-> "applied"]
           /\ <<req.params.username, req.params.id>> \in applications
      ELSE /\ res.status = 403
           /\ called = <<>>

\* C10: PATCH /jobs/:id and DELETE /jobs/:id for a job id that does not exist
\* fail with a NotFound error and change no job.
C10_NoSuchJob ==
  [][(/\ pc = "handler"
      /\ req.route \in {"PATCH /jobs/:id", "DELETE /jobs/:id"}
      /\ ~Has(jobs, req.params.id))
       => (err' = "NotFound" /\ pc' = "error" /\ jobs' = jobs)]_vars

\* C11: whenever a company with the given handle is already stored, a step of
\* Company.create that ends the call ends it with a BadRequest error and
\* inserts nothing, under every interleaving of the callers; and no two stored
\* companies ever share a handle.
C11_Duplicate ==
  [][/\ \A p \in Callers :
          (/\ creates[p].pc \in {"check", "insert"}
           /\ creates'[p].pc = "done"
           /\ \E r \in companies : r.handle = creates[p].data.handle)
            => (creates'[p].result = "BadRequest" /\ companies' = companies)
     /\ \A r1, r2 \in companies' : r1.handle = r2.handle => r1 = r2]_vars

\* C12: the route handler runs only if every middleware wired before it went
\* on without an error; a middleware that hands an error to next is the last
\* thing that runs for the request.
C12_HaltIsFinal ==
  pc \notin {"unit", "sql", "company"} =>
    /\ \A i \in 1..Len(log) :
         (log[i].stage # "handler" /\ log[i].err # "none") =>
           (i = Len(log) /\ pc \in {"error", "done"})
    /\ (pc = "handler" \/ HandlerRan) =>
         /\ Len(log) >= 1 + Len(Chain(req.route))
         /\ log[1] = [stage |-> "authenticateJWT", err |-> "none"]
         /\ \A i \in 1..Len(Chain(req.route)) :
              log[i + 1] = [stage |-> Chain(req.route)[i], err |-> "none"]

\* DELETE /users/:username answered 403 to a user who is not the owner: no handler ran
C12_Witness ==
  /\ req.route = "DELETE /users/:username"
  /\ pc = "done"
  /\ Len(log) = 3
  /\ log[3] = [stage |-> "ensureAdminOrUser", err |-> "Forbidden"]
  /\ called = <<>>
  /\ res.status = 403

\* C13: every call of ensureLoggedIn, ensureAdmin or ensureAdminOrUser hands
\* exactly one thing to next: nothing, or one error, which is Unauthorized for
\* ensureLoggedIn and Forbidden for the other two; without a user it is the error.
C13_OneOutcome ==
  [][pc = "unit" =>
       /\ Len(log') = Len(log) + 1
       /\ SubSeq(log', 1, Len(log)) = log
       /\ log'[Len(log')].err \in
            (IF log'[Len(log')].stage = "ensureLoggedIn"
               THEN {"none", "Unauthorized"} ELSE {"none", "Forbidden"})
       /\ ~Has(locals, "user") => log'[Len(log')].err # "none"]_vars

\* without a user, ensureLoggedIn handed Unauthorized and the other two handed Forbidden
C13_Witness ==
  /\ pc = "unit"
  /\ locals = <<>>
  /\ log = << [stage |-> "ensureLoggedIn", err |-> "Unauthorized"],
              [stage |-> "ensureAdmin", err |-> "Forbidden"],
              [stage |-> "ensureAdminOrUser", err |-> "Forbidden"] >>

\* C14: a request whose credential fails verification has, after
\* authenticateJWT, the res.locals of the same request without an
\* authorization header, every middleware gives the same result on both, and
\* the route answers both the same way up to the handler.
C14_Indistinguishable ==
  (/\ pc \in {"chain", "handler", "error", "done"}
   /\ Has(req.headers, "authorization")
   /\ ~ValidCredential(req.headers)) =>
    LET twin == RunRequest(req.route, <<>>, req.params)
        own == SelectSeq(log, LAMBDA entry : entry.stage # "handler")
    IN /\ locals = twin.locals
       /\ locals = <<>>
       /\ \A name \in {"ensureLoggedIn", "ensureAdmin", "ensureAdminOrUser"} :
            \A params \in [username : PathUsernames] :
              StageResult(name, locals, params) = StageResult(name, twin.locals, params)
       /\ pc \in {"handler", "error", "done"} => own = twin.log
       /\ (pc = "done" /\ ~HandlerRan) =>
            res = [status |-> StatusOf(twin.log[Len(twin.log)].err), body |-> "error"]

\* a request with an expired token was answered 401 like a request without a header
C14_Witness ==
  /\ pc = "done"
  /\ req.route \in SelfRoutes
  /\ Has(req.headers, "authorization")
  /\ req.headers.authorization.token.kind = "expired"
  /\ req.headers.authorization.scheme = "bearer "
  /\ log = RunRequest(req.route, <<>>, req.params).log
  /\ res.status = 401

\* C15: for a non-empty patch of n values, Company.update sends a statement
\* whose set clause uses $1..$n and whose WHERE clause compares the handle
\* with $(n+1), with the bind list the n values followed by the handle, so
\* every placeholder has exactly one bind value; when no row has the handle
\* the call fails with NotFound.
C15_UpdateStatement ==
  (upd # <<>> /\ upd.op = "update" /\ Len(upd.data) > 0) =>
    LET n == Len(upd.data)
    IN /\ Len(upd.sql) = 4 * n + 3
       /\ \A i \in 1..n :
            /\ upd.sql[4 * i] = "$" \o ToString(i)
            /\ upd.binds[i] = upd.data[i].value
       /\ upd.sql[4 * n + 1] = "WHERE handle ="
       /\ upd.sql[4 * n + 2] = "$" \o ToString(n + 1)
       /\ Len(upd.binds) = n + 1
       /\ upd.binds[n + 1] = upd.handle
       /\ \A k \in 1..Len(upd.binds) :
            Cardinality({j \in 1..Len(upd.sql) : upd.sql[j] = "$" \o ToString(k)}) = 1
       /\ (~\E r \in companies : r.handle = upd.handle) <=> upd.result = "NotFound"

\* a patch of two fields was sent for a handle no stored company has
C15_Witness ==
  /\ upd # <<>>
  /\ upd.op = "update"
  /\ Len(upd.data) = 2
  /\ upd.sql[Len(upd.sql) - 1] = "$3"
  /\ upd.binds[3] = "c2"
  /\ companies # {}
  /\ upd.result = "NotFound"

====
